---- MODULE Spec2Model ----
(***************************************************************************)
(* Model of the focus timer of src/script.js: the session state machine    *)
(* (startTimer / pauseTimer / resetTimer / the setInterval callback /      *)
(* switchMode), the attention model (simulateAttentionFluctuation), the    *)
(* reminder scheduler (shouldShowWaveReminder / showWaveReminder), the     *)
(* input handlers and the ripple list.                                     *)
(*                                                                         *)
(* Number representation.  The time values are integers (seconds).  The    *)
(* floats of the program are kept as exact rationals with a fixed          *)
(* denominator:                                                            *)
(*   attentionIntensity   in units of 1/300  (300 is 1.0, 210 is 0.7)      *)
(*   waveSpeed            in units of 1/100  (2 is 0.02)                   *)
(*   waveHeight           as a pair <<numerator, denominator>>             *)
(*   ripple radius        in units of 1/100 pixel                          *)
(* The value of an <input> element is a string in the program; the model   *)
(* keeps its number and converts it to the decimal string (DecStr) where   *)
(* the program compares the strings.                                       *)
(***************************************************************************)
EXTENDS Integers, Sequences, FiniteSets, TLC

(***************************************************************************)
(* Bounds of the model (minutes, entries).                                 *)
(***************************************************************************)
MaxFocus == 2
MaxBreak == 1
MaxReminder == 2
MaxRipples == 1
MaxConfigs == 1
CanvasMin == 3
ValFocusMax == 12
ValReminderMax == 13
BreakLong == 2

(***************************************************************************)
(* Constants of the program.                                               *)
(***************************************************************************)
SecPerMin == 60
IntensityOne == 300
IntensityFloor == 210
DecayDelay == 30
MaxWaveHeight == 60
BreakLimit == 30
SpeedFocus == 2
SpeedBreak == 4
SpeedPaused == 1
SpeedReminder == 5
TimeoutMs == 3000
TickMs == 1000
TimeoutTicks == TimeoutMs \div TickMs
RippleCount == 3

ColorFocus == "#e74c3c"
ColorBreak == "#27ae60"
ColorIdle == "#3498db"

FocusInputs == 1..MaxFocus
BreakInputs == 0..MaxBreak
ReminderInputs == 0..MaxReminder

VARIABLES
    focusTime,              \* focusTimeInput.value
    breakTime,              \* breakTimeInput.value
    waveReminder,           \* waveReminderInput.value
    timer,                  \* handle of the last interval created, 0 before
    intervals,              \* handles of the intervals that are active
    isRunning, isPaused, isFocusMode,
    timeLeft, totalTime, lastReminderTime,
    waveHeight, waveSpeed, waveColor,
    lastAttentionBoostTime, attentionIntensity,
    rippleEffects,          \* the ripple list
    speedTimeouts,          \* pending setTimeout callbacks of showWaveReminder
    rippleTimeouts,         \* pending setTimeout callbacks of addModeTransitionRipples
    frameLoop,              \* a requestAnimationFrame callback of animate is pending
    \* history variables (observers, never read by the program)
    fired,                  \* timeLeft of each reminder of the current Focus phase
    phaseClean,             \* no pause/reset/configuration since the Focus phase was entered
    runTicks,               \* ticks since start() from Idle with no other command, else -1
    configs,                \* number of input changes so far
    snap                    \* <<"paused" or "resumed", the values before that pause()>>

progVars == <<focusTime, breakTime, waveReminder, timer, intervals,
              isRunning, isPaused, isFocusMode, timeLeft, totalTime,
              lastReminderTime, waveHeight, waveSpeed, waveColor,
              lastAttentionBoostTime, attentionIntensity, rippleEffects,
              speedTimeouts, rippleTimeouts>>
histVars == <<fired, phaseClean, runTicks, configs, snap>>
vars == <<progVars, histVars, frameLoop>>

Max(a, b) == IF a >= b THEN a ELSE b
Min(a, b) == IF a <= b THEN a ELSE b

(***************************************************************************)
(* Strings of input values and their comparison.                           *)
(***************************************************************************)
RECURSIVE Digits(_)
Digits(n) == IF n < 10 THEN <<48 + n>> ELSE Digits(n \div 10) \o <<48 + (n % 10)>>

\* String(n) of an integer: the UTF-16 code units of its decimal form.
DecStr(n) == IF n < 0 THEN <<45>> \o Digits(-n) ELSE Digits(n)

\* a > b on two strings: comparison by code units, a proper prefix is smaller.
RECURSIVE StrGreater(_, _)
StrGreater(a, b) ==
    IF a = <<>> THEN FALSE
    ELSE IF b = <<>> THEN TRUE
    ELSE IF Head(a) # Head(b) THEN Head(a) > Head(b)
    ELSE StrGreater(Tail(a), Tail(b))

\* a % b of the program for integers; b = 0 gives NaN, modelled by the caller.
JsRem(a, b) ==
    LET m == IF b < 0 THEN -b ELSE b
    IN  IF a >= 0 THEN a % m ELSE -((-a) % m)

(***************************************************************************)
(* validateBreakTime, validateWaveReminder: the value left in the input.   *)
(***************************************************************************)
validateBreakTime(v) ==
    LET v1 == IF v < 1 THEN 1 ELSE v
    IN  IF v1 > BreakLimit THEN BreakLimit ELSE v1

validateWaveReminder(v, focus) ==
    LET v1 == IF StrGreater(DecStr(v), DecStr(focus)) THEN focus ELSE v
    IN  IF v1 < 1 THEN 1 ELSE v1

(***************************************************************************)
(* Reminder scheduler.                                                     *)
(***************************************************************************)
\* mutants of shouldShowWaveReminder: without timeLeft > 0, without
\* timeLeft < lastReminderTime, with that comparison turned round
shouldShowAtZero(tl, lastRem, reminder) ==
    LET reminderInterval == reminder * SecPerMin
    IN  /\ reminderInterval # 0
        /\ JsRem(tl, reminderInterval) = 0
        /\ tl < lastRem

shouldShowAgain(tl, lastRem, reminder) ==
    LET reminderInterval == reminder * SecPerMin
    IN  /\ reminderInterval # 0
        /\ JsRem(tl, reminderInterval) = 0
        /\ tl > 0

shouldShowInverted(tl, lastRem, reminder) ==
    LET reminderInterval == reminder * SecPerMin
    IN  /\ reminderInterval # 0
        /\ JsRem(tl, reminderInterval) = 0
        /\ tl > lastRem
        /\ tl > 0

shouldShowWaveReminder(tl, lastRem, reminder) ==
    LET reminderInterval == reminder * SecPerMin
    IN  /\ reminderInterval # 0
        /\ JsRem(tl, reminderInterval) = 0
        /\ tl < lastRem
        /\ tl > 0

(***************************************************************************)
(* Attention model.                                                        *)
(***************************************************************************)
decayFactor(timeSinceLastBoost) ==
    Max(IntensityFloor, IntensityOne - timeSinceLastBoost)

\* the mutant of simulateAttentionFluctuation: the decay has no floor
simulateNoFloor(intensity, lastBoost, tl) ==
    LET timeSinceLastBoost == lastBoost - tl
    IN  IF timeSinceLastBoost > DecayDelay
        THEN IntensityOne - timeSinceLastBoost
        ELSE intensity

simulateAttentionFluctuation(intensity, lastBoost, tl) ==
    LET timeSinceLastBoost == lastBoost - tl
    IN  IF timeSinceLastBoost > DecayDelay
        THEN Max(IntensityFloor, decayFactor(timeSinceLastBoost))
        ELSE intensity

(***************************************************************************)
(* updateWaveHeight: easeOutQuad(timeLeft / totalTime) * 60 * intensity,   *)
(* as numerator and denominator; <<0, 0>> is NaN (totalTime = 0).          *)
(***************************************************************************)
updateWaveHeight(tl, total, intensity) ==
    IF total = 0 THEN <<0, 0>>
    ELSE <<tl * (2 * total - tl) * MaxWaveHeight * intensity,
           total * total * IntensityOne>>

(***************************************************************************)
(* Ripples.  opacity is kept multiplied by maxRadius, so that              *)
(* 1 - radius / maxRadius is maxRadius - radius.  Of centerX and centerY   *)
(* the model keeps whether they are defined (center).                      *)
(***************************************************************************)
Undefined == "undefined"

RippleMaxRadius == CanvasMin * 80

addRippleEffect(color) ==
    [kind |-> "reminder", radius |-> 0, maxRadius |-> RippleMaxRadius,
     speed |-> 300, opacity |-> RippleMaxRadius, color |-> color,
     center |-> TRUE]

transitionRipple(i, focus) ==
    [kind |-> "transition", radius |-> 0, maxRadius |-> RippleMaxRadius,
     speed |-> (2 + i) * 100, opacity |-> CanvasMin * 64,
     color |-> IF focus THEN ColorFocus ELSE ColorBreak,
     center |-> TRUE]

\* the mutant of growRipple: the radius does not grow
growRippleFrozen(r) == r

growRipple(r) ==
    [r EXCEPT !.radius = r.radius + r.speed,
              !.opacity = r.maxRadius - (r.radius + r.speed)]

\* createRippleEffect: the entry pushed on a click or touch of the canvas; it
\* has x and y, and no centerX, centerY or color
createRippleEffect ==
    [kind |-> "click", radius |-> 0, maxRadius |-> CanvasMin * 30,
     speed |-> 200, opacity |-> CanvasMin * 24, color |-> Undefined,
     center |-> FALSE]

\* getColorWithAlpha(color, alpha) calls color.startsWith: a TypeError when
\* color is undefined
getColorWithAlphaThrows(color) == color = Undefined

\* drawRippleEffects calls getColorWithAlpha(ripple.color, ...) on every entry
drawRippleEffectsThrows(rs) ==
    \E i \in 1..Len(rs) : getColorWithAlphaThrows(rs[i].color)

rippleExpired(r) == r.radius > r.maxRadius \/ r.opacity <= 0

updateRippleEffects(rs) ==
    LET grown == [i \in 1..Len(rs) |-> growRipple(rs[i])]
    IN  SelectSeq(grown, LAMBDA r : ~rippleExpired(r))

(***************************************************************************)
(* Deferred callbacks.  A callback of showWaveReminder is due 3000 ms      *)
(* after the tick that created it: age counts the ticks of the 1000 ms     *)
(* interval since then, and loose says that the interval was stopped in    *)
(* between, after which the ticks no longer measure the time.              *)
(***************************************************************************)
loosen(ts) == [i \in 1..Len(ts) |-> [ts[i] EXCEPT !.loose = TRUE]]
older(ts) == [i \in 1..Len(ts) |-> [ts[i] EXCEPT !.age = ts[i].age + 1]]
tickAllowed(ts) == \A i \in 1..Len(ts) : ts[i].age < TimeoutTicks
timeoutDue(t) == t.loose \/ t.age >= TimeoutTicks - 1

newInterval(active) ==
    IF active = {} THEN 1
    ELSE (CHOOSE m \in active : \A n \in active : n <= m) + 1

(***************************************************************************)
(* Initial state: the module-level declarations, script.js lines 25-42.    *)
(***************************************************************************)
Init ==
    /\ focusTime \in FocusInputs
    /\ breakTime \in 1..MaxBreak
    /\ waveReminder \in 1..Min(focusTime, MaxReminder)
    /\ timer = 0
    /\ intervals = {}
    /\ isRunning = FALSE
    /\ isPaused = FALSE
    /\ isFocusMode = TRUE
    /\ timeLeft = focusTime * SecPerMin
    /\ totalTime = timeLeft
    /\ lastReminderTime = 0
    /\ waveHeight = <<0, 1>>
    /\ waveSpeed = SpeedFocus
    /\ waveColor = ColorIdle
    /\ lastAttentionBoostTime = 0
    /\ attentionIntensity = IntensityOne
    /\ rippleEffects = <<>>
    /\ speedTimeouts = <<>>
    /\ rippleTimeouts = <<>>
    /\ frameLoop = TRUE
    /\ fired = <<>>
    /\ phaseClean = FALSE
    /\ runTicks = -1
    /\ configs = 0
    /\ snap = <<>>

(***************************************************************************)
(* The program state as a record, and the step that installs a record.     *)
(***************************************************************************)
ProgState ==
    [focusTime |-> focusTime, breakTime |-> breakTime,
     waveReminder |-> waveReminder, timer |-> timer, intervals |-> intervals,
     isRunning |-> isRunning, isPaused |-> isPaused,
     isFocusMode |-> isFocusMode, timeLeft |-> timeLeft,
     totalTime |-> totalTime, lastReminderTime |-> lastReminderTime,
     waveHeight |-> waveHeight, waveSpeed |-> waveSpeed,
     waveColor |-> waveColor,
     lastAttentionBoostTime |-> lastAttentionBoostTime,
     attentionIntensity |-> attentionIntensity,
     rippleEffects |-> rippleEffects, speedTimeouts |-> speedTimeouts,
     rippleTimeouts |-> rippleTimeouts]

SetProg(r) ==
    /\ focusTime' = r.focusTime
    /\ breakTime' = r.breakTime
    /\ waveReminder' = r.waveReminder
    /\ timer' = r.timer
    /\ intervals' = r.intervals
    /\ isRunning' = r.isRunning
    /\ isPaused' = r.isPaused
    /\ isFocusMode' = r.isFocusMode
    /\ timeLeft' = r.timeLeft
    /\ totalTime' = r.totalTime
    /\ lastReminderTime' = r.lastReminderTime
    /\ waveHeight' = r.waveHeight
    /\ waveSpeed' = r.waveSpeed
    /\ waveColor' = r.waveColor
    /\ lastAttentionBoostTime' = r.lastAttentionBoostTime
    /\ attentionIntensity' = r.attentionIntensity
    /\ rippleEffects' = r.rippleEffects
    /\ speedTimeouts' = r.speedTimeouts
    /\ rippleTimeouts' = r.rippleTimeouts

\* the mutant of clearInterval: the interval is left active
clearIntervalForgotten(active, handle) == active

\* clearInterval(timer)
clearInterval(active, handle) == active \ {handle}

(***************************************************************************)
(* startTimer, as a function of the program state.                         *)
(***************************************************************************)
\* mutants of firstStart: the test on isPaused is missing, is turned round
firstStartNotRunning(running, paused) == ~running

firstStartPaused(running, paused) == ~running /\ paused

\* if (!isRunning && !isPaused): the first start
firstStart(running, paused) == ~running /\ ~paused

startTimer(s) ==
    LET first == firstStart(s.isRunning, s.isPaused)
        s1 == IF first
              THEN [s EXCEPT !.timeLeft = s.focusTime * SecPerMin,
                             !.totalTime = s.focusTime * SecPerMin,
                             !.lastReminderTime = s.focusTime * SecPerMin,
                             !.lastAttentionBoostTime = s.focusTime * SecPerMin,
                             !.isFocusMode = TRUE,
                             !.attentionIntensity = IntensityOne]
              ELSE s
        id == newInterval(s1.intervals)
    IN  IF ~s1.isRunning
        THEN [s1 EXCEPT !.isRunning = TRUE,
                        !.isPaused = FALSE,
                        !.waveColor = IF s1.isFocusMode THEN ColorFocus ELSE ColorBreak,
                        !.waveSpeed = IF s1.isFocusMode THEN SpeedFocus ELSE SpeedBreak,
                        !.timer = id,
                        !.intervals = s1.intervals \cup {id}]
        ELSE s1

StartTimer ==
    IF isRunning THEN UNCHANGED vars
    ELSE
        LET first == firstStart(isRunning, isPaused)
        IN  /\ SetProg(startTimer(ProgState))
            /\ UNCHANGED frameLoop
            /\ fired' = IF first THEN <<>> ELSE fired
            /\ phaseClean' = first
            /\ runTicks' = IF first THEN 0 ELSE -1
            /\ UNCHANGED configs
            /\ snap' = IF snap # <<>> /\ snap[1] = "paused"
                       THEN <<"resumed", snap[2]>> ELSE <<>>

(***************************************************************************)
(* pauseTimer, as a function of the program state.                         *)
(***************************************************************************)
\* the mutant of pauseTimer: the test on isRunning is missing
pauseTimerAlways(s) ==
    [s EXCEPT !.intervals = clearInterval(s.intervals, s.timer),
              !.isRunning = FALSE,
              !.isPaused = TRUE,
              !.waveSpeed = SpeedPaused,
              !.speedTimeouts = loosen(s.speedTimeouts)]

pauseTimer(s) ==
    IF s.isRunning
    THEN [s EXCEPT !.intervals = clearInterval(s.intervals, s.timer),
                   !.isRunning = FALSE,
                   !.isPaused = TRUE,
                   !.waveSpeed = SpeedPaused,
                   !.speedTimeouts = loosen(s.speedTimeouts)]
    ELSE s

PauseTimer ==
    IF ~isRunning THEN UNCHANGED vars
    ELSE
        /\ SetProg(pauseTimer(ProgState))
        /\ UNCHANGED frameLoop
        /\ UNCHANGED fired
        /\ phaseClean' = FALSE
        /\ runTicks' = -1
        /\ UNCHANGED configs
        /\ snap' = <<"paused", <<timeLeft, totalTime, isFocusMode, attentionIntensity>> >>

(***************************************************************************)
(* resetTimer, as a function of the program state.                         *)
(***************************************************************************)
\* the mutant of resetTimer: lastReminderTime is taken from timeLeft before
\* timeLeft is set
resetTimerStale(s) ==
    [s EXCEPT !.intervals = s.intervals \ {s.timer},
              !.isRunning = FALSE,
              !.isPaused = FALSE,
              !.isFocusMode = TRUE,
              !.lastReminderTime = s.timeLeft,
              !.timeLeft = s.focusTime * SecPerMin,
              !.totalTime = s.focusTime * SecPerMin,
              !.waveColor = ColorIdle,
              !.waveSpeed = SpeedFocus,
              !.waveHeight = <<0, 1>>,
              !.speedTimeouts = loosen(s.speedTimeouts)]

resetTimer(s) ==
    [s EXCEPT !.intervals = clearInterval(s.intervals, s.timer),
              !.isRunning = FALSE,
              !.isPaused = FALSE,
              !.isFocusMode = TRUE,
              !.timeLeft = s.focusTime * SecPerMin,
              !.totalTime = s.focusTime * SecPerMin,
              !.lastReminderTime = s.focusTime * SecPerMin,
              !.waveColor = ColorIdle,
              !.waveSpeed = SpeedFocus,
              !.waveHeight = <<0, 1>>,
              !.speedTimeouts = loosen(s.speedTimeouts)]

ResetTimer ==
    LET r == resetTimer(ProgState)
    IN  /\ focusTime' = r.focusTime
        /\ breakTime' = r.breakTime
        /\ waveReminder' = r.waveReminder
        /\ timer' = r.timer
        /\ intervals' = r.intervals
        /\ isRunning' = r.isRunning
        /\ isPaused' = r.isPaused
        /\ isFocusMode' = r.isFocusMode
        /\ timeLeft' = r.timeLeft
        /\ totalTime' = r.totalTime
        /\ lastReminderTime' = r.lastReminderTime
        /\ waveHeight' = r.waveHeight
        /\ waveSpeed' = r.waveSpeed
        /\ waveColor' = r.waveColor
        /\ lastAttentionBoostTime' = r.lastAttentionBoostTime
        /\ attentionIntensity' = r.attentionIntensity
        /\ rippleEffects' = r.rippleEffects
        /\ speedTimeouts' = r.speedTimeouts
        /\ rippleTimeouts' = r.rippleTimeouts
        /\ UNCHANGED frameLoop
        /\ fired' = <<>>
        /\ phaseClean' = FALSE
        /\ runTicks' = -1
        /\ UNCHANGED configs
        /\ snap' = <<>>

(***************************************************************************)
(* The setInterval callback of startTimer, for the interval id.            *)
(* Timing: the callbacks of addModeTransitionRipples (0, 200, 400 ms) run  *)
(* before the next tick, and a callback of showWaveReminder before the     *)
(* fourth tick after it was created.  The animation frames (about 60 in a  *)
(* second) have removed the ripples of a canvas of CanvasMin pixels        *)
(* before the next tick.                                                   *)
(***************************************************************************)
\* the mutant of canCountdown: >= for >
canCountdownAtZero(tl) == tl >= 0

\* if (timeLeft > 0) of the callback
canCountdown(tl) == tl > 0

\* mutants of phaseDuration: the focus duration for both phases, the two
\* durations exchanged
phaseDurationFocusOnly(focus, f, b) == f * SecPerMin

phaseDurationSwapped(focus, f, b) == IF focus THEN b * SecPerMin ELSE f * SecPerMin

\* switchMode: the duration of the phase entered
phaseDuration(focus, f, b) == IF focus THEN f * SecPerMin ELSE b * SecPerMin

\* the mutant of showWaveReminder: lastAttentionBoostTime is not set
showWaveReminderNoMark(s) ==
    [s EXCEPT !.lastReminderTime = s.timeLeft,
              !.waveSpeed = SpeedReminder,
              !.attentionIntensity = IntensityOne,
              !.rippleEffects = Append(s.rippleEffects, addRippleEffect(s.waveColor)),
              !.speedTimeouts = Append(s.speedTimeouts,
                    [orig |-> s.waveSpeed, age |-> 0, loose |-> FALSE])]

\* the mutant of showWaveReminder: originalSpeed is read after waveSpeed is set
showWaveReminderLateCapture(s) ==
    [s EXCEPT !.lastReminderTime = s.timeLeft,
              !.waveSpeed = SpeedReminder,
              !.attentionIntensity = IntensityOne,
              !.lastAttentionBoostTime = s.timeLeft,
              !.rippleEffects = Append(s.rippleEffects, addRippleEffect(s.waveColor)),
              !.speedTimeouts = Append(s.speedTimeouts,
                    [orig |-> SpeedReminder, age |-> 0, loose |-> FALSE])]

\* showWaveReminder, on the part of the state it reads and writes
showWaveReminder(s) ==
    [s EXCEPT !.lastReminderTime = s.timeLeft,
              !.waveSpeed = SpeedReminder,
              !.attentionIntensity = IntensityOne,
              !.lastAttentionBoostTime = s.timeLeft,
              !.rippleEffects = Append(s.rippleEffects, addRippleEffect(s.waveColor)),
              !.speedTimeouts = Append(s.speedTimeouts,
                    [orig |-> s.waveSpeed, age |-> 0, loose |-> FALSE])]

\* the mutant of TickFires: the test on isFocusMode is missing
TickFiresAnyPhase ==
    /\ canCountdown(timeLeft)
    /\ shouldShowWaveReminder(timeLeft - 1, lastReminderTime, waveReminder)

\* if (isFocusMode && shouldShowWaveReminder()) after timeLeft--
TickFires ==
    /\ canCountdown(timeLeft)
    /\ isFocusMode
    /\ shouldShowWaveReminder(timeLeft - 1, lastReminderTime, waveReminder)

nextRunTicks ==
    IF runTicks >= 0 /\ runTicks < (focusTime + breakTime) * SecPerMin + 2
    THEN runTicks + 1 ELSE -1

\* the branch timeLeft > 0
Countdown ==
    LET fire == TickFires
        s0 == [timeLeft |-> timeLeft - 1,
               lastReminderTime |-> lastReminderTime,
               waveSpeed |-> waveSpeed,
               waveColor |-> waveColor,
               attentionIntensity |-> attentionIntensity,
               lastAttentionBoostTime |-> lastAttentionBoostTime,
               rippleEffects |-> rippleEffects,
               speedTimeouts |-> older(speedTimeouts)]
        s1 == IF fire THEN showWaveReminder(s0) ELSE s0
    IN  /\ canCountdown(timeLeft)
        /\ fire => Len(rippleEffects) < MaxRipples
        /\ timeLeft' = s1.timeLeft
        /\ lastReminderTime' = s1.lastReminderTime
        /\ waveSpeed' = s1.waveSpeed
        /\ speedTimeouts' = s1.speedTimeouts
        /\ lastAttentionBoostTime' = s1.lastAttentionBoostTime
        /\ rippleEffects' = s1.rippleEffects
        /\ waveHeight' = updateWaveHeight(s1.timeLeft, totalTime, s1.attentionIntensity)
        /\ attentionIntensity' =
              IF isFocusMode
              THEN simulateAttentionFluctuation(s1.attentionIntensity,
                                                s1.lastAttentionBoostTime, s1.timeLeft)
              ELSE s1.attentionIntensity
        /\ UNCHANGED <<focusTime, breakTime, waveReminder, timer, intervals,
                       isRunning, isPaused, isFocusMode, totalTime, waveColor,
                       rippleTimeouts>>
        /\ fired' = IF fire THEN Append(fired, s1.timeLeft) ELSE fired
        /\ UNCHANGED phaseClean

\* the mutant of nextPhase: the phase is kept
nextPhaseKept(focus) == focus

\* isFocusMode = !isFocusMode
nextPhase(focus) == ~focus

\* the branch else: switchMode
switchMode ==
    LET focus == nextPhase(isFocusMode)
        tl == phaseDuration(focus, focusTime, breakTime)
    IN  /\ ~canCountdown(timeLeft)
        /\ isFocusMode' = focus
        /\ timeLeft' = tl
        /\ totalTime' = tl
        /\ lastReminderTime' = IF focus THEN tl ELSE lastReminderTime
        /\ lastAttentionBoostTime' = IF focus THEN tl ELSE lastAttentionBoostTime
        /\ attentionIntensity' = IF focus THEN IntensityOne ELSE attentionIntensity
        /\ rippleEffects' = IF focus THEN <<>> ELSE rippleEffects
        /\ waveColor' = IF focus THEN ColorFocus ELSE ColorBreak
        /\ waveSpeed' = IF focus THEN SpeedFocus ELSE SpeedBreak
        /\ rippleTimeouts' = rippleTimeouts \o [i \in 1..RippleCount |-> i - 1]
        /\ speedTimeouts' = older(speedTimeouts)
        /\ UNCHANGED <<focusTime, breakTime, waveReminder, timer, intervals,
                       isRunning, isPaused, waveHeight>>
        /\ fired' = IF focus THEN <<>> ELSE fired
        /\ phaseClean' = IF focus THEN TRUE ELSE phaseClean

Tick ==
    \E id \in intervals :
        /\ tickAllowed(speedTimeouts)
        /\ rippleTimeouts = <<>>
        /\ rippleEffects = <<>> \/ ~frameLoop
        /\ Countdown \/ switchMode
        /\ runTicks' = nextRunTicks
        /\ UNCHANGED frameLoop
        /\ UNCHANGED configs
        /\ snap' = <<>>

(***************************************************************************)
(* The input handlers: the user sets the value of the input to v and the   *)
(* change handler runs.                                                    *)
(***************************************************************************)
configured ==
    /\ configs < MaxConfigs
    /\ configs' = configs + 1
    /\ UNCHANGED fired
    /\ phaseClean' = FALSE
    /\ runTicks' = -1
    /\ snap' = <<>>

\* the mutant of SetFocusDuration: totalTime is not set
SetFocusDurationNoTotal(v) ==
    /\ focusTime' = v
    /\ timeLeft' = IF ~isRunning THEN v * SecPerMin ELSE timeLeft
    /\ waveReminder' = validateWaveReminder(waveReminder, v)
    /\ UNCHANGED <<breakTime, timer, intervals, isRunning, isPaused,
                   isFocusMode, totalTime, lastReminderTime, waveHeight,
                   waveSpeed, waveColor, lastAttentionBoostTime,
                   attentionIntensity, rippleEffects, speedTimeouts,
                   rippleTimeouts>>
    /\ UNCHANGED frameLoop
    /\ configured

\* the mutant of SetFocusDuration: the test on isRunning is missing
SetFocusDurationAlways(v) ==
    /\ focusTime' = v
    /\ timeLeft' = v * SecPerMin
    /\ totalTime' = v * SecPerMin
    /\ waveReminder' = validateWaveReminder(waveReminder, v)
    /\ UNCHANGED <<breakTime, timer, intervals, isRunning, isPaused,
                   isFocusMode, lastReminderTime, waveHeight, waveSpeed,
                   waveColor, lastAttentionBoostTime, attentionIntensity,
                   rippleEffects, speedTimeouts, rippleTimeouts>>
    /\ UNCHANGED frameLoop
    /\ configured

\* updateFocusTime
SetFocusDuration(v) ==
    /\ focusTime' = v
    /\ timeLeft' = IF ~isRunning THEN v * SecPerMin ELSE timeLeft
    /\ totalTime' = IF ~isRunning THEN v * SecPerMin ELSE totalTime
    /\ waveReminder' = validateWaveReminder(waveReminder, v)
    /\ UNCHANGED <<breakTime, timer, intervals, isRunning, isPaused,
                   isFocusMode, lastReminderTime, waveHeight, waveSpeed,
                   waveColor, lastAttentionBoostTime, attentionIntensity,
                   rippleEffects, speedTimeouts, rippleTimeouts>>
    /\ UNCHANGED frameLoop
    /\ configured

\* validateBreakTime
SetBreakDuration(v) ==
    /\ breakTime' = validateBreakTime(v)
    /\ UNCHANGED <<focusTime, waveReminder, timer, intervals, isRunning,
                   isPaused, isFocusMode, timeLeft, totalTime,
                   lastReminderTime, waveHeight, waveSpeed, waveColor,
                   lastAttentionBoostTime, attentionIntensity, rippleEffects,
                   speedTimeouts, rippleTimeouts>>
    /\ UNCHANGED frameLoop
    /\ configured

\* validateWaveReminder
SetReminderInterval(v) ==
    /\ waveReminder' = validateWaveReminder(v, focusTime)
    /\ UNCHANGED <<focusTime, breakTime, timer, intervals, isRunning,
                   isPaused, isFocusMode, timeLeft, totalTime,
                   lastReminderTime, waveHeight, waveSpeed, waveColor,
                   lastAttentionBoostTime, attentionIntensity, rippleEffects,
                   speedTimeouts, rippleTimeouts>>
    /\ UNCHANGED frameLoop
    /\ configured

(***************************************************************************)
(* The deferred callbacks and the animation frame.                         *)
(***************************************************************************)
\* setTimeout(() => { waveSpeed = originalSpeed; }, 3000)
SpeedTimeout ==
    /\ speedTimeouts # <<>>
    /\ timeoutDue(Head(speedTimeouts))
    /\ waveSpeed' = Head(speedTimeouts).orig
    /\ speedTimeouts' = Tail(speedTimeouts)
    /\ UNCHANGED <<focusTime, breakTime, waveReminder, timer, intervals,
                   isRunning, isPaused, isFocusMode, timeLeft, totalTime,
                   lastReminderTime, waveHeight, waveColor,
                   lastAttentionBoostTime, attentionIntensity, rippleEffects,
                   rippleTimeouts>>
    /\ UNCHANGED <<histVars, frameLoop>>

\* the callback of addModeTransitionRipples
RippleTimeout ==
    /\ rippleTimeouts # <<>>
    /\ Len(rippleEffects) < MaxRipples
    /\ rippleEffects' = Append(rippleEffects,
                               transitionRipple(Head(rippleTimeouts), isFocusMode))
    /\ rippleTimeouts' = Tail(rippleTimeouts)
    /\ UNCHANGED <<focusTime, breakTime, waveReminder, timer, intervals,
                   isRunning, isPaused, isFocusMode, timeLeft, totalTime,
                   lastReminderTime, waveHeight, waveSpeed, waveColor,
                   lastAttentionBoostTime, attentionIntensity, speedTimeouts>>
    /\ UNCHANGED <<histVars, frameLoop>>

\* animate: drawWave calls drawRippleEffects, then updateWaveOffset calls
\* updateRippleEffects, then requestAnimationFrame(animate); an error thrown
\* by the drawing ends the callback before the two others
Frame ==
    /\ frameLoop
    /\ rippleEffects # <<>>
    /\ IF drawRippleEffectsThrows(rippleEffects)
       THEN frameLoop' = FALSE /\ UNCHANGED rippleEffects
       ELSE rippleEffects' = updateRippleEffects(rippleEffects) /\ UNCHANGED frameLoop
    /\ UNCHANGED <<focusTime, breakTime, waveReminder, timer, intervals,
                   isRunning, isPaused, isFocusMode, timeLeft, totalTime,
                   lastReminderTime, waveHeight, waveSpeed, waveColor,
                   lastAttentionBoostTime, attentionIntensity, speedTimeouts,
                   rippleTimeouts>>
    /\ UNCHANGED histVars

Next ==
    \/ StartTimer
    \/ PauseTimer
    \/ ResetTimer
    \/ Tick
    \/ \E v \in FocusInputs : SetFocusDuration(v)
    \/ \E v \in BreakInputs : SetBreakDuration(v)
    \/ \E v \in ReminderInputs : SetReminderInterval(v)
    \/ SpeedTimeout
    \/ RippleTimeout
    \/ Frame

Spec == Init /\ [][Next]_vars

(***************************************************************************)
(* The program with the clicks and touches of the canvas.                  *)
(***************************************************************************)
\* the click / touchstart handler of waveCanvas
CanvasClick ==
    /\ Len(rippleEffects) < MaxRipples
    /\ rippleEffects' = Append(rippleEffects, createRippleEffect)
    /\ UNCHANGED <<focusTime, breakTime, waveReminder, timer, intervals,
                   isRunning, isPaused, isFocusMode, timeLeft, totalTime,
                   lastReminderTime, waveHeight, waveSpeed, waveColor,
                   lastAttentionBoostTime, attentionIntensity, speedTimeouts,
                   rippleTimeouts>>
    /\ UNCHANGED <<histVars, frameLoop>>

NextCanvas ==
    \/ Next
    \/ CanvasClick

SpecCanvas == Init /\ [][NextCanvas]_vars

(***************************************************************************)
(* The same program when the focus input takes any integer: no handler     *)
(* checks focusTimeInput.value.                                            *)
(***************************************************************************)
FocusInputsAny == (0 - MaxFocus)..MaxFocus

NextAny ==
    \/ StartTimer
    \/ PauseTimer
    \/ ResetTimer
    \/ Tick
    \/ \E v \in FocusInputsAny : SetFocusDuration(v)
    \/ \E v \in BreakInputs : SetBreakDuration(v)
    \/ \E v \in ReminderInputs : SetReminderInterval(v)
    \/ SpeedTimeout
    \/ RippleTimeout
    \/ Frame

SpecAny == Init /\ [][NextAny]_vars

(***************************************************************************)
(* The validation of the reminder interval on its own: the inputs hold a   *)
(* focus duration and a reminder value as typed, and the handlers run.     *)
(***************************************************************************)
InitValidate ==
    /\ focusTime \in 1..ValFocusMax
    /\ breakTime = 1
    /\ waveReminder \in -1..ValReminderMax
    /\ timer = 0
    /\ intervals = {}
    /\ isRunning = FALSE
    /\ isPaused = FALSE
    /\ isFocusMode = TRUE
    /\ timeLeft = focusTime * SecPerMin
    /\ totalTime = timeLeft
    /\ lastReminderTime = 0
    /\ waveHeight = <<0, 1>>
    /\ waveSpeed = SpeedFocus
    /\ waveColor = ColorIdle
    /\ lastAttentionBoostTime = 0
    /\ attentionIntensity = IntensityOne
    /\ rippleEffects = <<>>
    /\ speedTimeouts = <<>>
    /\ rippleTimeouts = <<>>
    /\ frameLoop = TRUE
    /\ fired = <<>>
    /\ phaseClean = FALSE
    /\ runTicks = -1
    /\ configs = 0
    /\ snap = <<>>

\* the change handler of waveReminderInput on the value it holds
ValidateReminder ==
    /\ waveReminder' = validateWaveReminder(waveReminder, focusTime)
    /\ UNCHANGED <<focusTime, breakTime, timer, intervals, isRunning,
                   isPaused, isFocusMode, timeLeft, totalTime,
                   lastReminderTime, waveHeight, waveSpeed, waveColor,
                   lastAttentionBoostTime, attentionIntensity, rippleEffects,
                   speedTimeouts, rippleTimeouts>>
    /\ UNCHANGED frameLoop
    /\ configured

NextValidate ==
    \/ ValidateReminder
    \/ \E v \in 1..ValFocusMax : SetFocusDuration(v)

SpecValidate == InitValidate /\ [][NextValidate]_vars

TypeOK ==
    /\ focusTime \in FocusInputs
    /\ breakTime \in 1..BreakLimit
    /\ isRunning \in BOOLEAN /\ isPaused \in BOOLEAN /\ isFocusMode \in BOOLEAN
    /\ timeLeft \in Int /\ totalTime \in Int
    /\ Len(rippleEffects) <= MaxRipples

(***************************************************************************)
(* Abbreviations of the properties.                                        *)
(***************************************************************************)
FocusSeconds == focusTime * SecPerMin
BreakSeconds == breakTime * SecPerMin
IntervalSeconds == waveReminder * SecPerMin
IsIdle == ~isRunning /\ ~isPaused
FireStep == Len(fired') > Len(fired)
EntersFocus ==
    \/ ~isRunning /\ ~isPaused /\ isRunning'
    \/ isRunning /\ isRunning' /\ ~isFocusMode /\ isFocusMode'
Session == <<timeLeft, totalTime, isFocusMode, attentionIntensity>>

\* the reminders of an uninterrupted Focus phase of T seconds with interval k
\* that has come down to tl: T - k, T - 2k, ..., above 0
expectedFired(T, k, tl) ==
    LET n == IF tl = 0 THEN (T \div k) - 1 ELSE (T - tl) \div k
    IN  [i \in 1..n |-> T - i * k]

(***************************************************************************)
(* C1.  As stated: in a run of start() from Idle and ticks only, after     *)
(* exactly totalSeconds ticks the phase is Break with remainingSeconds =   *)
(* totalSeconds = the break duration, and after exactly break-duration     *)
(* further ticks the phase is Focus again.                                 *)
(***************************************************************************)
C1_AsStated ==
    /\ runTicks = FocusSeconds =>
          ~isFocusMode /\ timeLeft = totalTime /\ totalTime = BreakSeconds
    /\ runTicks = FocusSeconds + BreakSeconds => isFocusMode

(***************************************************************************)
(* C1, amended.  The tick taken at remainingSeconds = 0 is the one that    *)
(* switches: the phase is Focus up to totalSeconds ticks, after exactly    *)
(* totalSeconds + 1 ticks it is Break with remainingSeconds = totalSeconds *)
(* = the break duration, it stays Break for break-duration further ticks,  *)
(* and after exactly break-duration + 1 further ticks it is Focus again.   *)
(***************************************************************************)
C1_PhaseAlternation ==
    /\ runTicks \in 0..FocusSeconds => isFocusMode /\ timeLeft = FocusSeconds - runTicks
    /\ runTicks = FocusSeconds + 1 =>
          ~isFocusMode /\ timeLeft = totalTime /\ totalTime = BreakSeconds
    /\ runTicks \in (FocusSeconds + 1)..(FocusSeconds + BreakSeconds + 1) => ~isFocusMode
    /\ runTicks = FocusSeconds + BreakSeconds + 2 =>
          isFocusMode /\ timeLeft = totalTime /\ totalTime = FocusSeconds

C1_Witness ==
    /\ runTicks = FocusSeconds + BreakSeconds + 2
    /\ isFocusMode /\ isRunning

(***************************************************************************)
(* C2.  As stated: for an interval k that divides the total T of the Focus *)
(* phase, an uninterrupted Focus phase fires exactly T / k reminders.      *)
(***************************************************************************)
C2_AsStated ==
    (~isFocusMode /\ phaseClean /\ FocusSeconds % IntervalSeconds = 0) =>
        /\ Len(fired) = FocusSeconds \div IntervalSeconds
        /\ \A i \in 1..Len(fired) :
              fired[i] > 0 /\ \E j \in 1..(FocusSeconds \div IntervalSeconds) :
                                fired[i] = FocusSeconds - j * IntervalSeconds

(***************************************************************************)
(* C2, amended.  For an interval k that divides the total T, an            *)
(* uninterrupted Focus phase fires exactly T / k - 1 reminders, at         *)
(* T - k, T - 2k, ..., k in this order (0 is not one of them); while the   *)
(* phase lasts, those of them not below remainingSeconds have fired.       *)
(***************************************************************************)
C2_ReminderCount ==
    (phaseClean /\ FocusSeconds % IntervalSeconds = 0) =>
        /\ isFocusMode => fired = expectedFired(FocusSeconds, IntervalSeconds, timeLeft)
        /\ ~isFocusMode =>
              /\ Len(fired) = (FocusSeconds \div IntervalSeconds) - 1
              /\ fired = expectedFired(FocusSeconds, IntervalSeconds, 0)

C2_Witness ==
    /\ ~isFocusMode /\ phaseClean
    /\ FocusSeconds % IntervalSeconds = 0
    /\ Len(fired) >= 1

(***************************************************************************)
(* C3.  Every reminder fires on a tick in Focus phase, after the           *)
(* decrement, at a remainingSeconds that is > 0, a multiple of the         *)
(* interval and strictly below lastFiredAt as it was before; the fire sets *)
(* lastFiredAt = remainingSeconds; no reminder of the same Focus phase has *)
(* fired at that value before, pauses and resumes included.                *)
(***************************************************************************)
C3_FireCondition ==
    [][FireStep =>
          /\ Tick
          /\ isFocusMode /\ isFocusMode'
          /\ timeLeft' = timeLeft - 1
          /\ timeLeft' > 0
          /\ timeLeft' % IntervalSeconds = 0
          /\ timeLeft' < lastReminderTime
          /\ lastReminderTime' = timeLeft'
          /\ fired' = Append(fired, timeLeft')
          /\ \A i \in 1..Len(fired) : fired[i] > timeLeft']_vars

C3_Witness ==
    /\ isRunning /\ isFocusMode /\ ~phaseClean
    /\ Len(fired) >= 1
    /\ timeLeft = fired[Len(fired)]
    /\ lastReminderTime = timeLeft

(***************************************************************************)
(* C4.  For a focus duration T and an interval k that divides T, k < T:    *)
(* after start() from Idle and exactly k ticks, exactly one reminder has   *)
(* fired, remainingSeconds = T - k and intensity = 1.0.                    *)
(***************************************************************************)
C4_FirstInterval ==
    (/\ runTicks = IntervalSeconds
     /\ FocusSeconds % IntervalSeconds = 0
     /\ IntervalSeconds < FocusSeconds) =>
        /\ Len(fired) = 1
        /\ fired[1] = FocusSeconds - IntervalSeconds
        /\ timeLeft = FocusSeconds - IntervalSeconds
        /\ attentionIntensity = IntensityOne

C4_Witness ==
    /\ runTicks = IntervalSeconds
    /\ IntervalSeconds < FocusSeconds
    /\ fired = <<timeLeft>>
    /\ attentionIntensity = IntensityOne

(***************************************************************************)
(* C5.  As stated: remainingSeconds after every tick is at most            *)
(* remainingSeconds before it, and remainingSeconds is never negative.     *)
(***************************************************************************)
C5_AsStated ==
    /\ [](timeLeft >= 0)
    /\ [][Tick => timeLeft' <= timeLeft]_vars

(***************************************************************************)
(* C5, amended.  A tick taken at remainingSeconds > 0 takes one second     *)
(* off; the tick taken at remainingSeconds = 0 switches the phase and sets *)
(* remainingSeconds to the duration of the new phase; remainingSeconds is  *)
(* never negative.                                                         *)
(***************************************************************************)
C5_Countdown ==
    /\ [](timeLeft >= 0)
    /\ [][Tick =>
            IF timeLeft > 0
            THEN timeLeft' = timeLeft - 1 /\ isFocusMode' = isFocusMode
            ELSE /\ isFocusMode' = ~isFocusMode
                 /\ timeLeft' = IF isFocusMode' THEN FocusSeconds ELSE BreakSeconds]_vars

C5_Witness ==
    /\ isRunning /\ ~isFocusMode
    /\ timeLeft < totalTime
    /\ timeLeft = 0

(***************************************************************************)
(* C6.  The attention intensity lies in [0.7, 1.0] in every state.         *)
(***************************************************************************)
C6_AttentionRange ==
    IntensityFloor <= attentionIntensity /\ attentionIntensity <= IntensityOne

C6_Witness ==
    /\ attentionIntensity = IntensityFloor
    /\ isFocusMode /\ isRunning
    /\ lastAttentionBoostTime - timeLeft > IntensityOne - IntensityFloor

(***************************************************************************)
(* C7.  At the end of a tick in which a reminder fires, and after an entry *)
(* into Focus by start() from Idle or by the switch from Break, intensity  *)
(* is 1.0 and lastBoostMark = remainingSeconds.                            *)
(***************************************************************************)
C7_AttentionBoost ==
    [][(FireStep \/ EntersFocus) =>
          /\ attentionIntensity' = IntensityOne
          /\ lastAttentionBoostTime' = timeLeft']_vars

C7_Witness ==
    /\ isRunning /\ isFocusMode
    /\ Len(fired) >= 1 /\ timeLeft = fired[Len(fired)]
    /\ attentionIntensity = IntensityOne
    /\ lastAttentionBoostTime = timeLeft
    /\ timeLeft < totalTime

(***************************************************************************)
(* C8.  In every state, reset() followed by reset() gives the state that   *)
(* one reset() gives.                                                      *)
(***************************************************************************)
C8_ResetIdempotent ==
    resetTimer(resetTimer(ProgState)) = resetTimer(ProgState)

C8_Witness ==
    /\ IsIdle
    /\ attentionIntensity < IntensityOne
    /\ ProgState = resetTimer(ProgState)

(***************************************************************************)
(* C9.  After pause() from Running followed at once by start(),            *)
(* remainingSeconds, totalSeconds, the phase and the intensity are what    *)
(* they were before the pause, and the session is Running.                 *)
(***************************************************************************)
C9_PauseResume ==
    (snap # <<>> /\ snap[1] = "resumed") =>
        /\ snap[2] = Session
        /\ isRunning /\ ~isPaused

C9_Witness ==
    /\ snap # <<>> /\ snap[1] = "resumed"
    /\ ~isFocusMode
    /\ timeLeft < totalTime
    /\ isRunning

(***************************************************************************)
(* C10.  In every state remainingSeconds <= totalSeconds, and running      *)
(* implies not paused.                                                     *)
(***************************************************************************)
C10_SessionInvariant ==
    /\ timeLeft <= totalTime
    /\ isRunning => ~isPaused

C10_Witness ==
    /\ configs > 0
    /\ isRunning
    /\ timeLeft < totalTime
    /\ totalTime # FocusSeconds

(***************************************************************************)
(* C11.  At most one interval is active, an interval is active exactly     *)
(* when the session is Running, and every tick is taken while Running      *)
(* (start, pause and reset may each be invoked any number of times in a    *)
(* row).                                                                   *)
(***************************************************************************)
C11_SingleTicker ==
    /\ [](Cardinality(intervals) <= 1 /\ (intervals # {} <=> isRunning))
    /\ [][Tick => isRunning /\ ~isPaused /\ intervals = {timer}]_vars

C11_Witness ==
    /\ snap # <<>> /\ snap[1] = "resumed"
    /\ isRunning
    /\ intervals = {timer}
    /\ timeLeft < totalTime

(***************************************************************************)
(* C12.  After reset() the ticker is stopped, the session is Idle, the     *)
(* phase is Focus, remainingSeconds = totalSeconds = the focus duration,   *)
(* lastFiredAt is that total, the intensity is 1.0 and the ripple list is  *)
(* empty.                                                                  *)
(***************************************************************************)
C12_ResetPost ==
    [][ResetTimer =>
          /\ intervals' = {}
          /\ ~isRunning' /\ ~isPaused'
          /\ isFocusMode'
          /\ timeLeft' = focusTime' * SecPerMin
          /\ totalTime' = timeLeft'
          /\ lastReminderTime' = totalTime'
          /\ attentionIntensity' = IntensityOne
          /\ rippleEffects' = <<>>]_vars

(***************************************************************************)
(* C13.  start() from Idle sets the phase to Focus, remainingSeconds =     *)
(* totalSeconds = the focus duration, intensity = 1.0, lastFiredAt =       *)
(* lastBoostMark = totalSeconds, and the session is Running; from Paused   *)
(* it makes the session Running and keeps the phase, remainingSeconds,     *)
(* totalSeconds, lastFiredAt and the intensity; from Running it changes    *)
(* nothing.                                                                *)
(***************************************************************************)
C13_StartPost ==
    /\ [](isRunning => startTimer(ProgState) = ProgState)
    /\ [][(StartTimer /\ ~isRunning) =>
            /\ isRunning' /\ ~isPaused'
            /\ intervals' # {}
            /\ IF IsIdle
               THEN /\ isFocusMode'
                    /\ timeLeft' = focusTime * SecPerMin
                    /\ totalTime' = timeLeft'
                    /\ attentionIntensity' = IntensityOne
                    /\ lastReminderTime' = totalTime'
                    /\ lastAttentionBoostTime' = totalTime'
               ELSE UNCHANGED <<isFocusMode, timeLeft, totalTime,
                                lastReminderTime, attentionIntensity>>]_vars

C13_Witness ==
    /\ runTicks = 0
    /\ isRunning /\ isFocusMode
    /\ configs > 0
    /\ timeLeft = totalTime /\ lastReminderTime = totalTime
    /\ lastAttentionBoostTime = totalTime

(***************************************************************************)
(* C14.  pause() from Running stops the ticker and makes the session       *)
(* Paused, and keeps the phase, remainingSeconds, totalSeconds,            *)
(* lastFiredAt and the intensity; from Idle or Paused it changes no state  *)
(* variable.                                                               *)
(***************************************************************************)
C14_PausePermissive ==
    /\ [](~isRunning => pauseTimer(ProgState) = ProgState)
    /\ [][(PauseTimer /\ isRunning) =>
            /\ intervals' = {}
            /\ ~isRunning' /\ isPaused'
            /\ UNCHANGED <<isFocusMode, timeLeft, totalTime,
                           lastReminderTime, attentionIntensity>>]_vars

C14_Witness ==
    /\ snap # <<>> /\ snap[1] = "paused"
    /\ isPaused /\ ~isRunning
    /\ intervals = {}
    /\ ~isFocusMode
    /\ waveSpeed = SpeedPaused

(***************************************************************************)
(* C15.  A tick taken at remainingSeconds = 0 flips the phase and takes    *)
(* no second off; after it remainingSeconds = totalSeconds = the duration  *)
(* of the new phase as the inputs have it at that moment; on entering      *)
(* Focus the intensity is 1.0 and lastFiredAt = lastBoostMark = the new    *)
(* total; the session stays Running.                                       *)
(***************************************************************************)
C15_SwitchPost ==
    [][(Tick /\ timeLeft = 0) =>
          /\ isFocusMode' = ~isFocusMode
          /\ timeLeft' = totalTime'
          /\ totalTime' = (IF isFocusMode' THEN focusTime' ELSE breakTime') * SecPerMin
          /\ focusTime' = focusTime /\ breakTime' = breakTime
          /\ isFocusMode' =>
                /\ attentionIntensity' = IntensityOne
                /\ lastReminderTime' = totalTime'
                /\ lastAttentionBoostTime' = totalTime'
          /\ isRunning' /\ ~isPaused'
          /\ intervals' = intervals]_vars

C15_Witness ==
    /\ Len(rippleTimeouts) = RippleCount
    /\ isRunning /\ isFocusMode
    /\ configs > 0
    /\ timeLeft = totalTime
    /\ totalTime = FocusSeconds
    /\ attentionIntensity = IntensityOne

(***************************************************************************)
(* C16.  A speed reversion that was pending when pause() or reset()        *)
(* happened does not change waveSpeed when it runs, and waveSpeed is the   *)
(* paused value 0.01 as long as the session is Paused.                     *)
(***************************************************************************)
C16_NoStaleReversion ==
    /\ [](isPaused => waveSpeed = SpeedPaused)
    /\ [][(SpeedTimeout /\ Head(speedTimeouts).loose) => waveSpeed' = waveSpeed]_vars

(***************************************************************************)
(* C17.  waveColor is the accent A when Running in Focus, the accent B     *)
(* when Running in Break, and the neutral colour C in every other state.   *)
(***************************************************************************)
C17_WaveColor ==
    waveColor = IF isRunning /\ isFocusMode THEN ColorFocus
                ELSE IF isRunning THEN ColorBreak
                ELSE ColorIdle

(***************************************************************************)
(* C18.  At the end of every tick taken at remainingSeconds > 0,           *)
(* waveHeight = 60 * f(remainingSeconds / totalSeconds) * intensity with   *)
(* f(p) = p * (2 - p) and the intensity of the end of that tick.           *)
(***************************************************************************)
C18_WaveHeight ==
    [][(Tick /\ timeLeft > 0) =>
          /\ waveHeight'[2] = totalTime' * totalTime' * IntensityOne
          /\ waveHeight'[1] = timeLeft' * (2 * totalTime' - timeLeft')
                              * MaxWaveHeight * attentionIntensity']_vars

(***************************************************************************)
(* C19.  Whatever integer the focus input is given, totalSeconds > 0 and   *)
(* remainingSeconds >= 0 in every state, and a Focus phase does not end    *)
(* on its first tick.                                                      *)
(***************************************************************************)
C19_FocusBoundary ==
    /\ [](totalTime > 0 /\ timeLeft >= 0)
    /\ [][(Tick /\ isFocusMode /\ timeLeft = totalTime) => isFocusMode']_vars

(***************************************************************************)
(* C20.  For a focus duration F >= 1 and a reminder value r, the           *)
(* validation leaves min(max(r, 1), F) in the reminder input, and after a  *)
(* change of the focus duration the reminder value is within 1..F.         *)
(***************************************************************************)
C20_Validation ==
    /\ [][ValidateReminder =>
            waveReminder' = Min(Max(waveReminder, 1), focusTime)]_vars
    /\ [][focusTime' # focusTime =>
            waveReminder' >= 1 /\ waveReminder' <= focusTime']_vars

(***************************************************************************)
(* C21.  totalSeconds is the duration of the current phase as it was when  *)
(* the phase was entered: as long as the phase is Break, no step changes   *)
(* totalSeconds, and remainingSeconds only goes down by the second of a    *)
(* tick; setFocusDuration during a paused Break replaces neither.          *)
(***************************************************************************)
C21_TotalTracksPhase ==
    [][(~isFocusMode /\ ~isFocusMode') =>
          /\ totalTime' = totalTime
          /\ timeLeft' \in {timeLeft, timeLeft - 1}]_vars

(***************************************************************************)
(* The program with its scheduling: an interval that is active keeps       *)
(* firing, a callback of setTimeout runs when it is due, and the animation *)
(* frames keep coming.                                                     *)
(***************************************************************************)
Fairness ==
    /\ WF_vars(Tick)
    /\ WF_vars(SpeedTimeout)
    /\ WF_vars(RippleTimeout)
    /\ WF_vars(Frame)

SpecLive == Init /\ [][Next]_vars /\ Fairness

(***************************************************************************)
(* C22.  No terminal state: from every Running state, unless the session   *)
(* is paused or reset, a phase switch eventually occurs, in Focus and in   *)
(* Break alike, so that both phases recur; and every tick changes          *)
(* remainingSeconds.                                                       *)
(***************************************************************************)
C22_NoTerminal ==
    /\ (isRunning /\ isFocusMode) ~> (~isRunning \/ ~isFocusMode)
    /\ (isRunning /\ ~isFocusMode) ~> (~isRunning \/ isFocusMode)
    /\ [][Tick => timeLeft' # timeLeft]_vars

C22_Witness ==
    /\ isRunning /\ ~isFocusMode /\ timeLeft = 0
    /\ runTicks = FocusSeconds + BreakSeconds + 1

(***************************************************************************)
(* C23.  Attention decay law: at the end of every tick of a Focus phase,   *)
(* with e = lastBoostMark - remainingSeconds, the intensity is 1.0 when    *)
(* e <= 30 and max(0.7, 1 - e / 300) when e > 30.                          *)
(***************************************************************************)
decayLaw(e) ==
    IF e <= DecayDelay THEN IntensityOne
    ELSE Max(IntensityFloor, IntensityOne - e)

C23_DecayLaw ==
    [][(Tick /\ isFocusMode /\ isFocusMode') =>
          attentionIntensity' = decayLaw(lastAttentionBoostTime' - timeLeft')]_vars

(***************************************************************************)
(* The same program started with a break input of up to BreakLong minutes, *)
(* so that a Break phase passes a multiple of the reminder interval.       *)
(***************************************************************************)
InitBreak ==
    /\ focusTime \in FocusInputs
    /\ breakTime \in 1..BreakLong
    /\ waveReminder \in 1..Min(focusTime, MaxReminder)
    /\ timer = 0
    /\ intervals = {}
    /\ isRunning = FALSE
    /\ isPaused = FALSE
    /\ isFocusMode = TRUE
    /\ timeLeft = focusTime * SecPerMin
    /\ totalTime = timeLeft
    /\ lastReminderTime = 0
    /\ waveHeight = <<0, 1>>
    /\ waveSpeed = SpeedFocus
    /\ waveColor = ColorIdle
    /\ lastAttentionBoostTime = 0
    /\ attentionIntensity = IntensityOne
    /\ rippleEffects = <<>>
    /\ speedTimeouts = <<>>
    /\ rippleTimeouts = <<>>
    /\ frameLoop = TRUE
    /\ fired = <<>>
    /\ phaseClean = FALSE
    /\ runTicks = -1
    /\ configs = 0
    /\ snap = <<>>

SpecBreak == InitBreak /\ [][Next]_vars

(***************************************************************************)
(* C24.  As stated: every tick taken while the phase is Break leaves       *)
(* intensity, lastBoostMark and lastFiredAt unchanged and fires no         *)
(* reminder.                                                               *)
(***************************************************************************)
C24_AsStated ==
    [][(Tick /\ ~isFocusMode) =>
          /\ UNCHANGED <<attentionIntensity, lastAttentionBoostTime, lastReminderTime>>
          /\ ~FireStep]_vars

(***************************************************************************)
(* C24, amended.  A tick taken in Break with remainingSeconds > 0 leaves   *)
(* intensity, lastBoostMark and lastFiredAt unchanged and fires no         *)
(* reminder (no ripple, no change of speed, no deferred reversion); the    *)
(* tick taken in Break at remainingSeconds = 0 is the switch into Focus,   *)
(* which sets intensity to 1.0 and both marks to the new totalSeconds.     *)
(***************************************************************************)
C24_BreakFrame ==
    [][(Tick /\ ~isFocusMode) =>
          IF timeLeft > 0
          THEN /\ UNCHANGED <<attentionIntensity, lastAttentionBoostTime,
                              lastReminderTime, rippleEffects, waveSpeed>>
               /\ Len(speedTimeouts') = Len(speedTimeouts)
               /\ ~FireStep
               /\ ~isFocusMode'
          ELSE /\ isFocusMode'
               /\ attentionIntensity' = IntensityOne
               /\ lastAttentionBoostTime' = totalTime'
               /\ lastReminderTime' = totalTime'
               /\ ~FireStep]_vars

C24_Witness ==
    /\ isRunning /\ ~isFocusMode
    /\ timeLeft < totalTime
    /\ shouldShowWaveReminder(timeLeft, lastReminderTime, waveReminder)
    /\ fired = <<>>

(***************************************************************************)
(* C25.  Post-reminder speed window: a reminder fire sets waveSpeed to the *)
(* elevated value; while the session stays Running in Focus the speed      *)
(* stays elevated on every step but the deferred reversion; a pending      *)
(* reversion eventually runs and the elevated speed eventually ends; and   *)
(* after a reversion that runs in a Running Focus phase waveSpeed is the   *)
(* Focus baseline.                                                         *)
(***************************************************************************)
C25_SpeedWindow ==
    /\ [][FireStep => waveSpeed' = SpeedReminder /\ speedTimeouts' # <<>>]_vars
    /\ [][(waveSpeed = SpeedReminder /\ isRunning /\ isFocusMode
             /\ isRunning' /\ isFocusMode' /\ ~SpeedTimeout) =>
            waveSpeed' = SpeedReminder]_vars
    /\ [][(SpeedTimeout /\ isRunning /\ isFocusMode) => waveSpeed' = SpeedFocus]_vars
    /\ (speedTimeouts # <<>>) ~> (speedTimeouts = <<>>)
    /\ (waveSpeed = SpeedReminder) ~> (waveSpeed # SpeedReminder)

C25_Witness ==
    /\ isRunning /\ isFocusMode /\ phaseClean
    /\ fired # <<>>
    /\ timeLeft < fired[Len(fired)]
    /\ timeLeft >= fired[Len(fired)] - TimeoutTicks
    /\ speedTimeouts = <<>>
    /\ waveSpeed = SpeedFocus

(***************************************************************************)
(* C26.  Ripple creation: the ripple list grows only by one entry on a     *)
(* reminder fire or by an entry of a phase transition (deferred); no other *)
(* event, a click or touch of the canvas included, adds an entry; and the  *)
(* switch into Focus leaves the list empty.                                *)
(***************************************************************************)
C26_RippleCreation ==
    /\ [][Len(rippleEffects') > Len(rippleEffects) =>
            /\ Len(rippleEffects') = Len(rippleEffects) + 1
            /\ \/ FireStep
               \/ RippleTimeout]_vars
    /\ [][(Tick /\ ~isFocusMode /\ isFocusMode') => rippleEffects' = <<>>]_vars

(***************************************************************************)
(* C30.  Render loop liveness: every entry of the ripple list has centerX, *)
(* centerY and color defined, so that no frame raises an error and the     *)
(* frame loop never stops.                                                 *)
(***************************************************************************)
C30_RenderLoop ==
    /\ \A i \in 1..Len(rippleEffects) :
          rippleEffects[i].center /\ rippleEffects[i].color # Undefined
    /\ frameLoop

(***************************************************************************)
(* C27.  Ripple expiry: with the frames going on, every ripple of the list *)
(* is eventually removed; a frame adds its speed to the radius of every    *)
(* ripple, sets its opacity to 1 - radius / maxRadius, and removes it when *)
(* radius > maxRadius or opacity <= 0, so that every ripple left after a   *)
(* frame has 0 < opacity <= 1 and radius < maxRadius.                      *)
(***************************************************************************)
C27_RippleExpiry ==
    /\ (rippleEffects # <<>>) ~> (rippleEffects = <<>>)
    /\ [][Frame =>
            LET grown == [i \in 1..Len(rippleEffects) |->
                            [rippleEffects[i] EXCEPT
                               !.radius = rippleEffects[i].radius + rippleEffects[i].speed,
                               !.opacity = rippleEffects[i].maxRadius
                                             - (rippleEffects[i].radius + rippleEffects[i].speed)]]
            IN  /\ rippleEffects' =
                      SelectSeq(grown, LAMBDA r : ~(r.radius > r.maxRadius \/ r.opacity <= 0))
                /\ \A i \in 1..Len(rippleEffects') :
                      /\ rippleEffects'[i].opacity > 0
                      /\ rippleEffects'[i].opacity <= rippleEffects'[i].maxRadius
                      /\ rippleEffects'[i].radius < rippleEffects'[i].maxRadius]_vars

C27_Witness ==
    /\ frameLoop
    /\ rippleEffects # <<>>
    /\ rippleEffects[1].radius > 0
    /\ rippleEffects[1].radius < rippleEffects[1].maxRadius

(***************************************************************************)
(* C28.  Marker ordering: whenever the session is Running in Focus,        *)
(* remainingSeconds <= lastFiredAt <= totalSeconds and remainingSeconds <= *)
(* lastBoostMark <= totalSeconds.                                          *)
(***************************************************************************)
C28_MarkerOrdering ==
    (isRunning /\ isFocusMode) =>
        /\ timeLeft <= lastReminderTime /\ lastReminderTime <= totalTime
        /\ timeLeft <= lastAttentionBoostTime /\ lastAttentionBoostTime <= totalTime

(***************************************************************************)
(* C29.  Configuration while Running: setFocusDuration and                 *)
(* setBreakDuration issued while the session is Running leave the phase,   *)
(* remainingSeconds, totalSeconds, running and paused unchanged; the focus *)
(* duration of the input is the one used at the next entry into Focus      *)
(* (switch from Break, reset, start from Idle) and the break duration of   *)
(* the input at the next entry into Break.                                 *)
(***************************************************************************)
C29_ConfigWhileRunning ==
    /\ [][(isRunning /\ (\/ \E v \in FocusInputs : SetFocusDuration(v)
                         \/ \E v \in BreakInputs : SetBreakDuration(v))) =>
            UNCHANGED <<isFocusMode, timeLeft, totalTime, isRunning, isPaused>>]_vars
    /\ [][(EntersFocus \/ ResetTimer) =>
            /\ isFocusMode'
            /\ timeLeft' = focusTime' * SecPerMin
            /\ totalTime' = focusTime' * SecPerMin]_vars
    /\ [][(Tick /\ isFocusMode /\ ~isFocusMode') =>
            /\ timeLeft' = breakTime' * SecPerMin
            /\ totalTime' = breakTime' * SecPerMin]_vars

C29_Witness ==
    /\ isRunning /\ ~isPaused /\ isFocusMode
    /\ configs > 0
    /\ timeLeft < totalTime
    /\ totalTime # focusTime * SecPerMin

====
